---- MODULE Spec2Model ----
(***************************************************************************)
(* Model of split_docs.py: split_docs() partitions a markdown document     *)
(* into one file per level-1/level-2 section plus an index file, and       *)
(* extract_schemas_and_types() copies fenced type and schema blocks of the *)
(* original text into two aggregate files.                                 *)
(*                                                                         *)
(* Text is a sequence of characters.  A character is a one-character       *)
(* string, except the backquote (U+0060), which a TLA+ string literal      *)
(* cannot hold and which is the value Backtick.                            *)
(***************************************************************************)
EXTENDS FiniteSets, Integers, Sequences, TLC

VARIABLES
    input,            \* the input file: [exists, text]
    dir_exists,       \* whether the output directory exists
    files,            \* the output directory: path -> text of the file
    events,           \* the file-system operations done so far, in order
    stdout,           \* the lines printed so far
    pc,               \* the statement the run is at
    status,           \* "running", "done" or "aborted"
    content,          \* split_docs: content
    lines,            \* split_docs: lines
    pos,              \* split_docs: number of lines the scan has consumed
    sections,         \* split_docs: sections
    current_section,  \* split_docs: current_section
    i,                \* split_docs: i of enumerate(sections)
    section_index,    \* split_docs: section_index, in insertion order
    types,            \* extract_schemas_and_types: types
    schemas           \* extract_schemas_and_types: schemas

vars == <<input, dir_exists, files, events, stdout, pc, status, content, lines,
          pos, sections, current_section, i, section_index, types, schemas>>

-----------------------------------------------------------------------------
(* Characters and text *)

Backtick == "BACKTICK"
NL == "\n"

Chars(s) == [k \in 1..Len(s) |-> SubSeq(s, k, k)]

UpperCase == Chars("ABCDEFGHIJKLMNOPQRSTUVWXYZ")
LowerCase == Chars("abcdefghijklmnopqrstuvwxyz")
Digits == Chars("0123456789")

Range(f) == {f[k] : k \in DOMAIN f}

WordChars == Range(UpperCase) \cup Range(LowerCase) \cup Range(Digits) \cup {"_"}
SpaceChars == {" ", "\t", "\n", "\r", "\f"}

\* \w of Python's re, on the ASCII characters
IsWord(c) == c \in WordChars

\* \s of Python's re, on the ASCII characters
IsSpace(c) == c \in SpaceChars

LowerOf == [c \in Range(UpperCase) |-> LowerCase[CHOOSE k \in 1..Len(UpperCase) : UpperCase[k] = c]]

\* str.lower() of one character
Lower(c) == IF c \in DOMAIN LowerOf THEN LowerOf[c] ELSE c

Min(S) == CHOOSE x \in S : \A y \in S : x <= y

RECURSIVE Flatten(_)
Flatten(ss) == IF ss = <<>> THEN <<>> ELSE Head(ss) \o Flatten(Tail(ss))

StartsWithAt(s, k, p) ==
    /\ k >= 1
    /\ k + Len(p) - 1 <= Len(s)
    /\ \A j \in 1..Len(p) : s[k + j - 1] = p[j]

\* the j-th smallest element of a set of numbers
Nth(S, j) == CHOOSE x \in S : Cardinality({y \in S : y <= x}) = j

\* s.split('\n'): the pieces between consecutive newlines
Split(s) ==
    LET nl == {k \in 1..Len(s) : s[k] = NL}
        n == Cardinality(nl)
    IN  [j \in 1..(n + 1) |->
            SubSeq(s, IF j = 1 THEN 1 ELSE Nth(nl, j - 1) + 1,
                      IF j = n + 1 THEN Len(s) ELSE Nth(nl, j) - 1)]

\* '\n'.join(ls)
RECURSIVE Join(_)
Join(ls) ==
    IF ls = <<>> THEN <<>>
    ELSE IF Len(ls) = 1 THEN ls[1]
    ELSE ls[1] \o <<NL>> \o Join(Tail(ls))

\* str(n) for n >= 0
RECURSIVE Dec(_)
Dec(n) == IF n < 10 THEN <<Digits[n + 1]>> ELSE Dec(n \div 10) \o <<Digits[(n % 10) + 1]>>

\* f"{n:03d}"
Fmt03d(n) ==
    LET d == Dec(n)
    IN  IF Len(d) >= 3 THEN d ELSE [k \in 1..(3 - Len(d)) |-> "0"] \o d

-----------------------------------------------------------------------------
(* Heading patterns: re.compile(r'^#{n} (.+)$').match(line) *)

Hashes(n) == [k \in 1..n |-> "#"]

HeadingMatch(n, line) ==
    /\ Len(line) >= n + 2
    /\ StartsWithAt(line, 1, Hashes(n) \o <<" ">>)
    /\ \A k \in (n + 2)..Len(line) : line[k] # NL

\* group(1) of a heading match
HeadingGroup(n, line) == SubSeq(line, n + 2, Len(line))

h1_match(line) == HeadingMatch(1, line)
h2_match(line) == HeadingMatch(2, line)
h3_match(line) == HeadingMatch(3, line)
h4_match(line) == HeadingMatch(4, line)
h5_match(line) == HeadingMatch(5, line)

-----------------------------------------------------------------------------
(* File names *)

input_file == Chars("DOCS.md")
output_dir == Chars("docs_split")

\* os.path.join(output_dir, name)
PathJoin(dir, name) == dir \o <<"/">> \o name

\* os.path.basename(path)
Basename(path) ==
    LET slashes == {k \in 1..Len(path) : path[k] = "/"}
    IN  IF slashes = {} THEN path
        ELSE SubSeq(path, (CHOOSE k \in slashes : \A j \in slashes : j <= k) + 1, Len(path))

\* re.sub(r'[^\w\s-]', '', title)
StripSpecial(title) == SelectSeq(title, LAMBDA c : IsWord(c) \/ IsSpace(c) \/ c = "-")

IsSep(c) == c = "-" \/ IsSpace(c)

\* re.sub(r'[-\s]+', '-', s), from character k on: the first character of a
\* run of hyphens and whitespace becomes '-', the rest of the run goes
RECURSIVE CollapseFrom(_, _)
CollapseFrom(s, k) ==
    IF k > Len(s) THEN <<>>
    ELSE IF ~IsSep(s[k]) THEN <<s[k]>> \o CollapseFrom(s, k + 1)
    ELSE IF k > 1 /\ IsSep(s[k - 1]) THEN CollapseFrom(s, k + 1)
    ELSE <<"-">> \o CollapseFrom(s, k + 1)

CollapseSeps(s) == CollapseFrom(s, 1)

\* a variant that cuts leading hyphens only
StripHyphens_Left(s) ==
    LET solid == {k \in 1..Len(s) : s[k] # "-"}
    IN  IF solid = {} THEN <<>> ELSE SubSeq(s, Min(solid), Len(s))

\* s.strip('-')
StripHyphens(s) ==
    LET solid == {k \in 1..Len(s) : s[k] # "-"}
    IN  IF solid = {} THEN <<>>
        ELSE SubSeq(s, Min(solid), CHOOSE k \in solid : \A j \in solid : j <= k)

LowerAll(s) == [k \in 1..Len(s) |-> Lower(s[k])]

MinFilenameLen == 3

\* the file name stem of section idx, lines 64-70
Filename(title, idx) ==
    LET filename == LowerAll(StripHyphens(CollapseSeps(StripSpecial(title))))
    IN  IF filename = <<>> \/ Len(filename) < MinFilenameLen
        THEN Chars("section_") \o Fmt03d(idx)
        ELSE filename

\* a variant that names the file by the slug alone
Filepath_NoIndex(title, idx) ==
    PathJoin(output_dir, Filename(title, idx) \o Chars(".md"))

\* filepath of section idx, line 72
Filepath(title, idx) ==
    PathJoin(output_dir, Fmt03d(idx) \o <<"_">> \o Filename(title, idx) \o Chars(".md"))

index_path == PathJoin(output_dir, Chars("00_index.md"))
types_path == PathJoin(output_dir, Chars("graphql_types.md"))
schemas_path == PathJoin(output_dir, Chars("schemas.md"))

-----------------------------------------------------------------------------
(* extract_schemas_and_types: the two patterns and findall *)

Fence == <<Backtick, Backtick, Backtick>>

\* the alternatives of the optional language tag, in the order the pattern
\* tries them; the empty tag is the '?' taking nothing
TypeTags == <<Chars("graphql"), Chars("typescript"), Chars("javascript"), <<>>>>
SchemaTags == <<Chars("graphql"), Chars("json"), <<>>>>

NoMatch == [end |-> 0, group |-> <<>>]

\* the first k >= from at which a fence starts, 0 if none
FirstFence(s, from) ==
    LET at == {k \in from..(Len(s) - 2) : s[k] = Backtick /\ StartsWithAt(s, k, Fence)}
    IN  IF at = {} THEN 0 ELSE Min(at)

\* type\s+\w+.*?``` at b (DOTALL): \s+ takes the whole run of whitespace, since
\* the character after it must be a word character; \w+ takes at least that
\* character; .*? stops before the first fence after it.
TypeBodyAt(s, b) ==
    IF ~(StartsWithAt(s, b, Chars("type")) /\ b + 4 <= Len(s) /\ IsSpace(s[b + 4]))
    THEN NoMatch
    ELSE LET solid == {k \in (b + 5)..Len(s) : ~IsSpace(s[k])}
             w == IF solid = {} THEN 0 ELSE Min(solid)
             e == IF w = 0 THEN 0 ELSE FirstFence(s, w + 1)
         IN  IF w = 0 \/ ~IsWord(s[w]) \/ e = 0 THEN NoMatch
             ELSE [end |-> e + 3, group |-> SubSeq(s, b, e - 1)]

\* \{[\s\S]*?\}``` at b: the body ends at the first '}' that a fence follows
\* immediately
SchemaBodyAt(s, b) ==
    IF ~(b <= Len(s) /\ s[b] = "{") THEN NoMatch
    ELSE LET closes == {k \in (b + 1)..Len(s) : s[k] = "}" /\ StartsWithAt(s, k + 1, Fence)}
         IN  IF closes = {} THEN NoMatch
             ELSE [end |-> Min(closes) + 4, group |-> SubSeq(s, b, Min(closes))]

\* the pattern ```(?:tag|...)?\n(body)``` tried at character k: the first tag
\* alternative after which the rest matches
TypeOpens(s, k) ==
    {a \in 1..Len(TypeTags) : StartsWithAt(s, k, Fence \o TypeTags[a] \o <<NL>>)
                              /\ TypeBodyAt(s, k + Len(TypeTags[a]) + 4).end # 0}

type_pattern(s, k) ==
    IF TypeOpens(s, k) = {} THEN NoMatch
    ELSE TypeBodyAt(s, k + Len(TypeTags[Min(TypeOpens(s, k))]) + 4)

SchemaOpens(s, k) ==
    {a \in 1..Len(SchemaTags) : StartsWithAt(s, k, Fence \o SchemaTags[a] \o <<NL>>)
                                /\ SchemaBodyAt(s, k + Len(SchemaTags[a]) + 4).end # 0}

schema_pattern(s, k) ==
    IF SchemaOpens(s, k) = {} THEN NoMatch
    ELSE SchemaBodyAt(s, k + Len(SchemaTags[Min(SchemaOpens(s, k))]) + 4)

\* the start positions of the non-overlapping matches findall reports, scanning
\* from character `from`: the leftmost match, then the search resumes at its end
RECURSIVE TypeStarts(_, _)
TypeStarts(s, from) ==
    LET at == {k \in from..Len(s) : s[k] = Backtick /\ type_pattern(s, k).end # 0}
    IN  IF at = {} THEN <<>>
        ELSE <<Min(at)>> \o TypeStarts(s, type_pattern(s, Min(at)).end)

RECURSIVE SchemaStarts(_, _)
SchemaStarts(s, from) ==
    LET at == {k \in from..Len(s) : s[k] = Backtick /\ schema_pattern(s, k).end # 0}
    IN  IF at = {} THEN <<>>
        ELSE <<Min(at)>> \o SchemaStarts(s, schema_pattern(s, Min(at)).end)

\* type_pattern.findall(content), schema_pattern.findall(content)
TypesFindall(s) ==
    LET st == TypeStarts(s, 1) IN [n \in 1..Len(st) |-> type_pattern(s, st[n]).group]

SchemasFindall(s) ==
    LET st == SchemaStarts(s, 1) IN [n \in 1..Len(st) |-> schema_pattern(s, st[n]).group]

-----------------------------------------------------------------------------
(* The text of the files written and of the lines printed *)

\* lines 88-93
IndexEntry(e) ==
    Flatten([k \in 1..(e.level - 1) |-> Chars("  ")])
    \o Chars("- [") \o e.title \o Chars("](./") \o Basename(e.file)
    \o Chars(") (") \o Dec(e.lines) \o Chars(" lines)") \o <<NL>>

IndexText(count, index) ==
    Chars("# Documentation Index") \o <<NL, NL>>
    \o Chars("Total sections: ") \o Dec(count) \o <<NL, NL>>
    \o Flatten([k \in 1..Len(index) |-> IndexEntry(index[k])])

\* lines 114-116
TypesText(ts) ==
    Chars("# GraphQL Types") \o <<NL, NL>>
    \o Flatten([k \in 1..Len(ts) |->
           Chars("## Type ") \o Dec(k) \o <<NL, NL>> \o Fence \o Chars("graphql") \o <<NL>>
           \o ts[k] \o Fence \o <<NL, NL>>])

MinSchemaLen == 100

\* lines 122-125
SchemaEntry(k, schema) ==
    IF Len(schema) > MinSchemaLen
    THEN Chars("## Schema ") \o Dec(k) \o <<NL, NL>> \o Fence \o Chars("json") \o <<NL>>
         \o schema \o Fence \o <<NL, NL>>
    ELSE <<>>

\* a variant that numbers the entries after the length filter
SchemasText_Renumbered(ss) ==
    LET large == SelectSeq(ss, LAMBDA x : Len(x) > MinSchemaLen)
    IN  Chars("# Schemas") \o <<NL, NL>>
        \o Flatten([k \in 1..Len(large) |->
               Chars("## Schema ") \o Dec(k) \o <<NL, NL>> \o Fence \o Chars("json") \o <<NL>>
               \o large[k] \o Fence \o <<NL, NL>>])

SchemasText(ss) ==
    Chars("# Schemas") \o <<NL, NL>>
    \o Flatten([k \in 1..Len(ss) |-> SchemaEntry(k, ss[k])])

-----------------------------------------------------------------------------
(* The input documents explored *)

MaxLines == 4
MaxTitleLen == 4
MaxBlocks == 2

SeqsUpTo(S, n) == UNION {[1..k -> S] : k \in 0..n}

\* documents of up to MaxLines lines: blank, level-1, level-2 and level-3
\* headings, two headings sharing a title, a title with punctuation, a title
\* with no word character
LineSet ==
    {<<>>, Chars("# Hello, World! 2024"), Chars("## Hello, World! 2024"),
     Chars("### Details"), Chars("## ?!")}

LineDocs == {Join(ls) : ls \in SeqsUpTo(LineSet, MaxLines)}

\* one-line documents '# ' + title, every title of up to MaxTitleLen characters
TitleChars == {"A", "_", "-", " ", "!"}

TitleDocs == {Chars("# ") \o t : t \in SeqsUpTo(TitleChars, MaxTitleLen)}

\* documents of up to MaxBlocks fenced blocks
Pad(n) == [k \in 1..n |-> "x"]

Openings ==
    {Fence \o <<NL>>, Fence \o Chars("json") \o <<NL>>, Fence \o Chars("graphql") \o <<NL>>}

Bodies ==
    {<<"{">> \o Pad(MinSchemaLen - 2) \o <<"}">>,
     <<"{">> \o Pad(MinSchemaLen - 1) \o <<"}">>,
     Chars("type User { id: ID! }")}

Closings == {Fence \o <<NL>>, <<NL>> \o Fence \o <<NL>>}

Blocks == {o \o b \o c : o \in Openings, b \in Bodies, c \in Closings}

FenceDocs == {Flatten(bs) : bs \in SeqsUpTo(Blocks, MaxBlocks)}

Docs == LineDocs \cup TitleDocs \cup FenceDocs

-----------------------------------------------------------------------------
(* The run *)

NoFiles == [p \in {} |-> <<>>]

\* open(path, 'w') followed by the writes: the file is created or replaced
WriteFile(fs, path, text) ==
    [p \in DOMAIN fs \cup {path} |-> IF p = path THEN text ELSE fs[p]]

Event(op, path) == [op |-> op, path |-> path]

\* a variant in which a key set again moves to the end
DictSet_Reinsert(index, entry) ==
    Append(SelectSeq(index, LAMBDA e : e.title # entry.title), entry)

\* section_index[title] = entry: a dict keeps a key at the position of its
\* first insertion
DictSet(index, entry) ==
    IF \E k \in 1..Len(index) : index[k].title = entry.title
    THEN [k \in 1..Len(index) |-> IF index[k].title = entry.title THEN entry ELSE index[k]]
    ELSE Append(index, entry)

Init ==
    /\ input \in {[exists |-> FALSE, text |-> <<>>]}
                 \cup {[exists |-> TRUE, text |-> d] : d \in Docs}
    /\ dir_exists \in BOOLEAN
    /\ files = NoFiles
    /\ events = <<>>
    /\ stdout = <<>>
    /\ pc = "mkdir"
    /\ status = "running"
    /\ content = <<>>
    /\ lines = <<>>
    /\ pos = 0
    /\ sections = <<>>
    /\ current_section = [title |-> <<>>, content |-> <<>>, level |-> 0]
    /\ i = 0
    /\ section_index = <<>>
    /\ types = <<>>
    /\ schemas = <<>>

\* line 10
Mkdir ==
    /\ status = "running" /\ pc = "mkdir"
    /\ dir_exists' = TRUE
    /\ events' = Append(events, Event("mkdir", output_dir))
    /\ pc' = "read"
    /\ UNCHANGED <<input, files, stdout, status, content, lines, pos, sections,
                   current_section, i, section_index, types, schemas>>

\* lines 12-19
ReadInput ==
    /\ status = "running" /\ pc = "read"
    /\ input.exists
    /\ content' = input.text
    /\ lines' = Split(input.text)
    /\ sections' = <<>>
    /\ current_section' = [title |-> Chars("Introduction"), content |-> <<>>, level |-> 1]
    /\ pos' = 0
    /\ events' = Append(events, Event("read", input_file))
    /\ pc' = "scan"
    /\ UNCHANGED <<input, dir_exists, files, stdout, status, i, section_index, types, schemas>>

\* a variant that goes on with an empty text when the input file is missing
ReadMissing_Continues ==
    /\ status = "running" /\ pc = "read"
    /\ ~input.exists
    /\ content' = <<>>
    /\ lines' = <<<<>>>>
    /\ sections' = <<>>
    /\ current_section' = [title |-> Chars("Introduction"), content |-> <<>>, level |-> 1]
    /\ pos' = 0
    /\ pc' = "scan"
    /\ UNCHANGED <<input, dir_exists, files, events, stdout, status, i, section_index,
                   types, schemas>>

\* line 12 when the input file is missing: open() raises
ReadMissing ==
    /\ status = "running" /\ pc = "read"
    /\ ~input.exists
    /\ status' = "aborted"
    /\ UNCHANGED <<input, dir_exists, files, events, stdout, pc, content, lines, pos,
                   sections, current_section, i, section_index, types, schemas>>

\* a variant that keeps the section in progress only if some line of it is not
\* empty
Flush_NonBlank(secs, cur) ==
    IF \E k \in 1..Len(cur.content) : cur.content[k] # <<>> THEN Append(secs, cur) ELSE secs

\* lines 38-39 and 57-58: the section in progress is kept if it has content
Flush(secs, cur) == IF cur.content # <<>> THEN Append(secs, cur) ELSE secs

\* a variant that leaves the heading line out of the content
NewSection_NoHeading(line) ==
    [title |-> IF h1_match(line) THEN HeadingGroup(1, line) ELSE HeadingGroup(2, line),
     content |-> <<>>,
     level |-> IF h1_match(line) THEN 1 ELSE 2]

\* lines 41-52: the section a level-1 or level-2 heading line starts
NewSection(line) ==
    [title |-> IF h1_match(line) THEN HeadingGroup(1, line) ELSE HeadingGroup(2, line),
     content |-> <<line>>,
     level |-> IF h1_match(line) THEN 1 ELSE 2]

\* a variant in which a level-3 heading starts a section too
ScanLine_SplitsOnH3 ==
    /\ status = "running" /\ pc = "scan"
    /\ pos < Len(lines)
    /\ LET line == lines[pos + 1]
       IN  IF h1_match(line) \/ h2_match(line) \/ h3_match(line)
           THEN /\ sections' = Flush(sections, current_section)
                /\ current_section' = NewSection(line)
           ELSE /\ sections' = sections
                /\ current_section' =
                       [current_section EXCEPT !.content = Append(@, line)]
    /\ pos' = pos + 1
    /\ UNCHANGED <<input, dir_exists, files, events, stdout, pc, status, content, lines,
                   i, section_index, types, schemas>>

\* lines 28-54, one iteration
ScanLine ==
    /\ status = "running" /\ pc = "scan"
    /\ pos < Len(lines)
    /\ LET line == lines[pos + 1]
       IN  IF h1_match(line) \/ h2_match(line)
           THEN /\ sections' = Flush(sections, current_section)
                /\ current_section' = NewSection(line)
           ELSE /\ sections' = sections
                /\ current_section' =
                       [current_section EXCEPT !.content = Append(@, line)]
    /\ pos' = pos + 1
    /\ UNCHANGED <<input, dir_exists, files, events, stdout, pc, status, content, lines,
                   i, section_index, types, schemas>>

\* lines 56-61: the loop is over
EndScan ==
    /\ status = "running" /\ pc = "scan"
    /\ pos = Len(lines)
    /\ sections' = Flush(sections, current_section)
    /\ section_index' = <<>>
    /\ i' = 0
    /\ pc' = IF sections' = <<>> THEN "index" ELSE "sections"
    /\ UNCHANGED <<input, dir_exists, files, events, stdout, status, content, lines, pos,
                   current_section, types, schemas>>

\* f"Created: {filepath} ({n} lines)"
CreatedLine(filepath, n) ==
    Chars("Created: ") \o filepath \o Chars(" (") \o Dec(n) \o Chars(" lines)")

\* lines 62-83, one iteration
WriteSection ==
    /\ status = "running" /\ pc = "sections"
    /\ LET section == sections[i + 1]
           filepath == Filepath(section.title, i)
       IN  /\ files' = WriteFile(files, filepath, Join(section.content))
           /\ events' = Append(events, Event("write", filepath))
           /\ section_index' =
                  DictSet(section_index,
                          [title |-> section.title, file |-> filepath,
                           lines |-> Len(section.content), level |-> section.level])
           /\ stdout' = Append(stdout, CreatedLine(filepath, Len(section.content)))
    /\ i' = i + 1
    /\ pc' = IF i + 1 = Len(sections) THEN "index" ELSE "sections"
    /\ UNCHANGED <<input, dir_exists, status, content, lines, pos, sections,
                   current_section, types, schemas>>

\* lines 85-96
WriteIndex ==
    /\ status = "running" /\ pc = "index"
    /\ files' = WriteFile(files, index_path, IndexText(Len(sections), section_index))
    /\ events' = Append(events, Event("write", index_path))
    /\ stdout' = stdout \o <<<<NL>> \o Chars("Created index at: ") \o index_path,
                             Chars("Total sections: ") \o Dec(Len(sections))>>
    /\ pc' = "extract"
    /\ UNCHANGED <<input, dir_exists, status, content, lines, pos, sections,
                   current_section, i, section_index, types, schemas>>

\* lines 99-109
Extract ==
    /\ status = "running" /\ pc = "extract"
    /\ types' = TypesFindall(content)
    /\ schemas' = SchemasFindall(content)
    /\ pc' = "types"
    /\ UNCHANGED <<input, dir_exists, files, events, stdout, status, content, lines, pos,
                   sections, current_section, i, section_index>>

\* lines 111-117
WriteTypes ==
    /\ status = "running" /\ pc = "types"
    /\ IF types # <<>>
       THEN /\ files' = WriteFile(files, types_path, TypesText(types))
            /\ events' = Append(events, Event("write", types_path))
            /\ stdout' = Append(stdout, Chars("Extracted ") \o Dec(Len(types))
                                        \o Chars(" GraphQL types to: ") \o types_path)
       ELSE UNCHANGED <<files, events, stdout>>
    /\ pc' = "schemas"
    /\ UNCHANGED <<input, dir_exists, status, content, lines, pos, sections,
                   current_section, i, section_index, types, schemas>>

\* a variant that writes schemas.md only if some schema passes the length filter
WriteSchemas_OnlyLarge ==
    /\ status = "running" /\ pc = "schemas"
    /\ IF \E k \in 1..Len(schemas) : Len(schemas[k]) > MinSchemaLen
       THEN /\ files' = WriteFile(files, schemas_path, SchemasText(schemas))
            /\ events' = Append(events, Event("write", schemas_path))
            /\ stdout' = Append(stdout, Chars("Extracted schemas to: ") \o schemas_path)
       ELSE UNCHANGED <<files, events, stdout>>
    /\ pc' = "done"
    /\ status' = "done"
    /\ UNCHANGED <<input, dir_exists, content, lines, pos, sections, current_section, i,
                   section_index, types, schemas>>

\* lines 119-126, and the return of split_docs
WriteSchemas ==
    /\ status = "running" /\ pc = "schemas"
    /\ IF schemas # <<>>
       THEN /\ files' = WriteFile(files, schemas_path, SchemasText(schemas))
            /\ events' = Append(events, Event("write", schemas_path))
            /\ stdout' = Append(stdout, Chars("Extracted schemas to: ") \o schemas_path)
       ELSE UNCHANGED <<files, events, stdout>>
    /\ pc' = "done"
    /\ status' = "done"
    /\ UNCHANGED <<input, dir_exists, content, lines, pos, sections, current_section, i,
                   section_index, types, schemas>>

\* the file the run is about to open for writing, <<>> if none
PendingPath ==
    CASE pc = "sections" -> Filepath(sections[i + 1].title, i)
      [] pc = "index" -> index_path
      [] pc = "types" /\ types # <<>> -> types_path
      [] pc = "schemas" /\ schemas # <<>> -> schemas_path
      [] OTHER -> <<>>

\* mkdir() or open() raises: nothing is caught, the run ends there
FaultOpen ==
    /\ status = "running"
    /\ pc \in {"mkdir", "read"} \/ PendingPath # <<>>
    /\ status' = "aborted"
    /\ UNCHANGED <<input, dir_exists, files, events, stdout, pc, content, lines, pos,
                   sections, current_section, i, section_index, types, schemas>>

\* open(path, 'w') has created or emptied the file and a write raises
FaultWrite ==
    /\ status = "running"
    /\ PendingPath # <<>>
    /\ files' = WriteFile(files, PendingPath, <<>>)
    /\ events' = Append(events, Event("write", PendingPath))
    /\ status' = "aborted"
    /\ UNCHANGED <<input, dir_exists, stdout, pc, content, lines, pos, sections,
                   current_section, i, section_index, types, schemas>>

Next ==
    \/ Mkdir
    \/ ReadInput
    \/ ReadMissing
    \/ ScanLine
    \/ EndScan
    \/ WriteSection
    \/ WriteIndex
    \/ Extract
    \/ WriteTypes
    \/ WriteSchemas
    \/ FaultOpen
    \/ FaultWrite

Spec == Init /\ [][Next]_vars

-----------------------------------------------------------------------------
(* Properties *)

Scanned == pc \in {"sections", "index", "extract", "types", "schemas", "done"}

Contents(secs) == Flatten([k \in 1..Len(secs) |-> secs[k].content])

IsMajorHeading(line) == h1_match(line) \/ h2_match(line)

\* a heading of level 3 or deeper
IsDeepHeading(line) == \E n \in 3..Len(line) : HeadingMatch(n, line)

\* C1: once the scan is over, the content lines of the emitted sections, put
\* end to end in emission order, are the lines of the input, content.split('\n'):
\* none dropped, duplicated or moved, the lines before the first heading
\* included.
C1_Lossless == Scanned => Contents(sections) = Split(input.text)

C1_Witness ==
    /\ status = "done"
    /\ Len(sections) >= 2
    /\ Len(lines) >= 3
    /\ ~IsMajorHeading(lines[1])
    /\ \E k \in 1..Len(lines) : lines[k] = <<>>

\* the section at position k is the implicit leading one: the scan started it
\* before any heading, so the first line of the input is no major heading
IsImplicit(k) == k = 1 /\ ~IsMajorHeading(lines[1])

HeadedBy(sec, line) ==
    /\ sec.content # <<>> /\ sec.content[1] = line
    /\ h1_match(line) => sec.level = 1 /\ sec.title = SubSeq(line, 3, Len(line))
    /\ h2_match(line) => sec.level = 2 /\ sec.title = SubSeq(line, 4, Len(line))

C2_Sections ==
    Scanned =>
        \A k \in 1..Len(sections) :
            LET c == sections[k].content
            IN  IF IsImplicit(k)
                THEN /\ sections[k].title = Chars("Introduction") /\ sections[k].level = 1
                     /\ \A j \in 1..Len(c) : ~IsMajorHeading(c[j])
                ELSE /\ c # <<>> /\ IsMajorHeading(c[1]) /\ HeadedBy(sections[k], c[1])
                     /\ \A j \in 2..Len(c) : ~IsMajorHeading(c[j])

C2_Step ==
    (pc = "scan" /\ pos' = pos + 1) =>
        LET line == lines[pos + 1]
        IN  /\ IsMajorHeading(line) =>
                /\ HeadedBy(current_section', line) /\ Len(current_section'.content) = 1
                /\ sections' = IF current_section.content = <<>> THEN sections
                               ELSE Append(sections, current_section)
            /\ IsDeepHeading(line) =>
                /\ sections' = sections
                /\ current_section' =
                       [current_section EXCEPT !.content = Append(@, line)]

\* C2: in the scan every level-1 or level-2 heading line starts a new section
\* whose first content line is that line and whose level is 1 or 2; a heading
\* line of level 3 or deeper starts none and joins the section in progress;
\* so every emitted section but the implicit leading one starts with its own
\* heading and holds no other level-1 or level-2 heading line.
C2_Headings == [][C2_Step]_vars /\ []C2_Sections

C2_Witness ==
    /\ status = "done"
    /\ Len(sections) >= 2
    /\ \E k \in 1..Len(sections) :
           \E j \in 2..Len(sections[k].content) : IsDeepHeading(sections[k].content[j])
    /\ \E k \in 1..Len(sections) : sections[k].level = 2

-----------------------------------------------------------------------------

\* the path the k-th emitted section was written to: the k-th write of the run
WrittenPath(k) == events[k + 2].path

SectionFiles == {p \in DOMAIN files : p \notin {index_path, types_path, schemas_path}}

\* n < 1000 as three decimal digits
ThreeDigits(n) ==
    <<Digits[((n \div 100) % 10) + 1], Digits[((n \div 10) % 10) + 1], Digits[(n % 10) + 1]>>

\* C3: after a completed run the count in the 'Total sections:' line of
\* 00_index.md is the number of distinct section files written; emitted
\* section number idx (from 0, in discovery order) has its own file
\* '<idx as 3 digits>_<slug>.md' holding its lines, no two sections share a path
\* and none is written to 00_index.md.
C3_IndexCount ==
    status = "done" =>
        /\ Split(files[index_path])[3]
               = Chars("Total sections: ") \o Dec(Cardinality(SectionFiles))
        /\ Cardinality(SectionFiles) = Len(sections)
        /\ \A k \in 1..Len(sections) :
               /\ events[k + 2].op = "write"
               /\ WrittenPath(k) \in DOMAIN files
               /\ files[WrittenPath(k)] = Join(sections[k].content)
               /\ WrittenPath(k) # index_path
               /\ WrittenPath(k) =
                      output_dir \o <<"/">> \o ThreeDigits(k - 1) \o <<"_">>
                      \o Filename(sections[k].title, k - 1) \o Chars(".md")
               /\ \A j \in 1..Len(sections) : j # k => WrittenPath(j) # WrittenPath(k)

C3_Witness ==
    /\ status = "done"
    /\ Len(sections) >= 3
    /\ \E j, k \in 1..Len(sections) :
           /\ j # k
           /\ sections[j].title = sections[k].title
           /\ Filename(sections[j].title, 0) = Filename(sections[k].title, 0)
           /\ Len(Filename(sections[j].title, 0)) < Len(Basename(WrittenPath(j)))

\* the entry lines of 00_index.md: what follows the four header lines
IndexBody ==
    LET ls == Split(files[index_path]) IN SubSeq(ls, 5, Len(ls) - 1)

\* the sections whose title no earlier section bears
FirstOfTitle == {k \in 1..Len(sections) : \A j \in 1..(k - 1) : sections[j].title # sections[k].title}

\* the last section bearing the title of section k
LastOfTitle(k) ==
    CHOOSE j \in 1..Len(sections) :
        /\ sections[j].title = sections[k].title
        /\ \A m \in (j + 1)..Len(sections) : sections[m].title # sections[k].title

Spaces(n) == [k \in 1..n |-> " "]

\* C4: the body of 00_index.md has one entry line per distinct section title;
\* with several sections of one title the entry shows the file basename, the
\* line count and the level of the last of them, at the position of the
\* first; an entry is indented by two spaces times (level - 1).
C4_IndexBody ==
    status = "done" =>
        /\ Len(IndexBody) = Cardinality({sections[k].title : k \in 1..Len(sections)})
        /\ \A n \in 1..Len(IndexBody) :
               LET last == LastOfTitle(Nth(FirstOfTitle, n))
                   sec == sections[last]
               IN  IndexBody[n] =
                       Spaces(2 * (sec.level - 1)) \o Chars("- [") \o sec.title
                       \o Chars("](./") \o Basename(WrittenPath(last)) \o Chars(") (")
                       \o Dec(Len(sec.content)) \o Chars(" lines)")

C4_Witness ==
    /\ status = "done"
    /\ Len(sections) = 3
    /\ sections[1].title = sections[3].title
    /\ sections[1].title # sections[2].title
    /\ sections[1].level # sections[3].level
    /\ Len(sections[1].content) # Len(sections[3].content)
    /\ Len(IndexBody) = 2

\* a hyphen or whitespace stands between the word character at position k of
\* the title and the word character before it
AfterGap(title, k) ==
    \E m \in 1..(k - 1) :
        /\ IsSep(title[m])
        /\ \A j \in (m + 1)..(k - 1) : ~IsWord(title[j])
        /\ \E j \in 1..(m - 1) : IsWord(title[j])

\* the word characters of the title lower-cased, with one hyphen wherever
\* hyphens or whitespace separate two of them
Hyphenated(title) ==
    Flatten([k \in 1..Len(title) |->
        IF ~IsWord(title[k]) THEN <<>>
        ELSE (IF AfterGap(title, k) THEN <<"-">> ELSE <<>>) \o <<Lower(title[k])>>])

\* the slug in the name of the file section k was written to
WrittenSlug(k) ==
    LET base == Basename(WrittenPath(k)) IN SubSeq(base, 5, Len(base) - 3)

\* C5: the slug of a title is the title without the characters that are no
\* word character, whitespace or hyphen, each run of hyphens and whitespace
\* made one hyphen, leading and trailing hyphens cut, lower-cased; a result
\* shorter than 3 characters is replaced by 'section_<idx as 3 digits>'.
\* 'Hello, World! 2024' gives 'hello-world-2024', '?!' gives 'section_<idx>',
\* and a slug has no whitespace, no two adjacent hyphens and no hyphen at
\* either end.
C5_Slug ==
    \A k \in 1..i :
        LET title == sections[k].title
            slug == WrittenSlug(k)
        IN  /\ slug = IF Len(Hyphenated(title)) < 3
                      THEN Chars("section_") \o ThreeDigits(k - 1)
                      ELSE Hyphenated(title)
            /\ \A m \in 1..Len(slug) : ~IsSpace(slug[m])
            /\ \A m \in 1..(Len(slug) - 1) : ~(slug[m] = "-" /\ slug[m + 1] = "-")
            /\ slug # <<>> /\ slug[1] # "-" /\ slug[Len(slug)] # "-"
            /\ title = Chars("Hello, World! 2024") => slug = Chars("hello-world-2024")
            /\ title = Chars("?!") => slug = Chars("section_") \o ThreeDigits(k - 1)

C5_Witness ==
    /\ status = "done"
    /\ \E k \in 1..i : sections[k].title = Chars("Hello, World! 2024")
    /\ \E k \in 1..i : sections[k].title = Chars("?!")

-----------------------------------------------------------------------------

intro_path == PathJoin(output_dir, Chars("000_introduction.md"))

\* C6 as stated: for an empty input file the run writes only 00_index.md and
\* no section file.
C6_Original ==
    (status = "done" /\ input.text = <<>>) => DOMAIN files = {index_path}

\* C6, amended: for an empty input file the run writes two files and no other:
\* the section file 000_introduction.md, empty, and 00_index.md, which counts
\* one section and lists the entry of 'Introduction' with 1 line.
C6_EmptyInput ==
    (status = "done" /\ input.text = <<>>) =>
        /\ DOMAIN files = {intro_path, index_path}
        /\ files[intro_path] = <<>>
        /\ Split(files[index_path]) =
               <<Chars("# Documentation Index"), <<>>, Chars("Total sections: 1"), <<>>,
                 Chars("- [Introduction](./000_introduction.md) (1 lines)"), <<>>>>

C6_Witness ==
    /\ status = "done"
    /\ input.exists /\ input.text = <<>>
    /\ Len(sections) = 1

\* some match of the pattern exists in the text
HasTypeMatch(s) == \E k \in 1..Len(s) : s[k] = Backtick /\ type_pattern(s, k).end # 0
HasSchemaMatch(s) == \E k \in 1..Len(s) : s[k] = Backtick /\ schema_pattern(s, k).end # 0

\* C7: a completed run has written 00_index.md; it has written graphql_types.md
\* exactly if the type pattern matches somewhere in the original text, and
\* schemas.md exactly if the schema pattern does, whatever the lengths of the
\* matches: when none is longer than 100 characters schemas.md holds only the
\* '# Schemas' header.
C7_FilesWritten ==
    status = "done" =>
        /\ index_path \in DOMAIN files
        /\ types_path \in DOMAIN files <=> HasTypeMatch(input.text)
        /\ schemas_path \in DOMAIN files <=> HasSchemaMatch(input.text)
        /\ (/\ HasSchemaMatch(input.text)
            /\ \A n \in 1..Len(schemas) : Len(schemas[n]) <= 100)
           => /\ schemas_path \in DOMAIN files
              /\ files[schemas_path] = Chars("# Schemas") \o <<NL, NL>>

C7_Witness ==
    /\ status = "done"
    /\ HasSchemaMatch(input.text)
    /\ \A n \in 1..Len(schemas) : Len(schemas[n]) <= 100
    /\ ~HasTypeMatch(input.text)
    /\ schemas_path \in DOMAIN files
    /\ types_path \notin DOMAIN files

\* the positions in a list of texts of those longer than 100 characters
Large(ss) == {k \in 1..Len(ss) : Len(ss[k]) > 100}

\* C8: schemas.md has a '## Schema k' entry for exactly the schema matches whose
\* captured text is longer than 100 characters, in match order, k being the
\* position of the match among all schema matches, so that the numbers grow
\* and may skip; graphql_types.md has an entry for every type match, numbered
\* 1..n.
C8_Numbering ==
    status = "done" =>
        /\ schemas # <<>> =>
               files[schemas_path] =
                   Chars("# Schemas") \o <<NL, NL>>
                   \o Flatten([n \in 1..Cardinality(Large(schemas)) |->
                          LET k == Nth(Large(schemas), n)
                          IN  Chars("## Schema ") \o Dec(k) \o <<NL, NL>> \o Fence
                              \o Chars("json") \o <<NL>> \o schemas[k] \o Fence \o <<NL, NL>>])
        /\ types # <<>> =>
               files[types_path] =
                   Chars("# GraphQL Types") \o <<NL, NL>>
                   \o Flatten([k \in 1..Len(types) |->
                          Chars("## Type ") \o Dec(k) \o <<NL, NL>> \o Fence
                          \o Chars("graphql") \o <<NL>> \o types[k] \o Fence \o <<NL, NL>>])

C8_Witness ==
    /\ status = "done"
    /\ Len(schemas) = 2
    /\ Large(schemas) = {2}

-----------------------------------------------------------------------------

\* a fenced block whose body begins with '{' opens at k: the fence, an optional
\* tag graphql or json, a newline, '{'
OpensObjectAt(s, k) ==
    \E a \in 1..Len(SchemaTags) : StartsWithAt(s, k, Fence \o SchemaTags[a] \o <<NL, "{">>)

\* the position of that '{'
ObjectAt(s, k) ==
    k + 4 + Len(SchemaTags[CHOOSE a \in 1..Len(SchemaTags) :
                    StartsWithAt(s, k, Fence \o SchemaTags[a] \o <<NL, "{">>)])

\* the block opening at k has a closing fence
ClosedObjectAt(s, k) == OpensObjectAt(s, k) /\ FirstFence(s, ObjectAt(s, k) + 1) # 0

\* where such blocks start when each one ends at the first fence after its '{'
RECURSIVE FencedObjects(_, _)
FencedObjects(s, from) ==
    LET at == {k \in from..Len(s) : s[k] = Backtick /\ ClosedObjectAt(s, k)}
    IN  IF at = {} THEN <<>>
        ELSE <<Min(at)>> \o FencedObjects(s, FirstFence(s, ObjectAt(s, Min(at)) + 1) + 3)

Extracted == pc \in {"types", "schemas", "done"}

\* C9: for a fenced block (tagged graphql or json, or untagged) whose body begins
\* with '{', the body the schema extractor captures ends at the first closing
\* fence after that '{': no captured body holds a fence, and the blocks
\* matched are all such blocks, those whose closing fence stands on a line of
\* its own after the final '}' included.
C9_FirstFence ==
    Extracted =>
        /\ \A n \in 1..Len(schemas) : FirstFence(schemas[n], 1) = 0
        /\ SchemaStarts(content, 1) = FencedObjects(content, 1)

IsPrefix(a, b) == Len(a) <= Len(b) /\ \A k \in 1..Len(a) : a[k] = b[k]

\* the k-th file-system operation of a run that nothing interrupts
ExpectedEvent(k) ==
    LET n == Len(sections)
    IN  CASE k = 1 -> Event("mkdir", output_dir)
          [] k = 2 -> Event("read", input_file)
          [] k > 2 /\ k <= n + 2 -> Event("write", Filepath(sections[k - 2].title, k - 3))
          [] k > 2 /\ k = n + 3 -> Event("write", index_path)
          [] k > 2 /\ k = n + 4 /\ HasTypeMatch(input.text) -> Event("write", types_path)
          [] k > 2 /\ k = n + 4 /\ ~HasTypeMatch(input.text) /\ HasSchemaMatch(input.text)
                 -> Event("write", schemas_path)
          [] k > 2 /\ k = n + 5 /\ HasTypeMatch(input.text) /\ HasSchemaMatch(input.text)
                 -> Event("write", schemas_path)
          [] OTHER -> Event("none", <<>>)

\* the number of operations of such a run
ExpectedCount ==
    Len(sections) + 3 + (IF HasTypeMatch(input.text) THEN 1 ELSE 0)
    + (IF HasSchemaMatch(input.text) THEN 1 ELSE 0)

C10_State ==
    /\ \A k \in 1..Len(events) : events[k] = ExpectedEvent(k)
    /\ status = "done" => Len(events) = ExpectedCount
    /\ DOMAIN files = {events[k].path : k \in {j \in 1..Len(events) : events[j].op = "write"}}
    /\ index_path \in DOMAIN files =>
           \A k \in 1..Len(sections) : Filepath(sections[k].title, k - 1) \in DOMAIN files
    /\ (types_path \in DOMAIN files \/ schemas_path \in DOMAIN files) =>
           index_path \in DOMAIN files
    /\ ~input.exists => /\ status # "done" /\ pc \in {"mkdir", "read"}
                        /\ DOMAIN files = {}
                        /\ pc = "read" => dir_exists

C10_Step ==
    /\ status = "aborted" => UNCHANGED vars
    /\ status' = "aborted" => pc' = pc
    /\ \A p \in DOMAIN files : p \in DOMAIN files' /\ files'[p] = files[p]
    /\ Len(events') <= Len(events) + 1 /\ IsPrefix(events, events')

\* C10: the operations of a run come in one order: the output directory is
\* made, the input read, the section files written by increasing index, then
\* 00_index.md, then graphql_types.md if any, then schemas.md if any.  A fault
\* ends the run at its step with nothing undone: the files written so far
\* stay as they are and no later one is written, so 00_index.md exists only
\* with all section files, the extractor files only with the index, and a
\* missing input file leaves the output directory made and empty.
C10_Order == [][C10_Step]_vars /\ []C10_State

C10_Witness ==
    /\ status = "aborted"
    /\ pc = "sections"
    /\ i >= 1 /\ i < Len(sections)
    /\ Cardinality(DOMAIN files) = i
    /\ index_path \notin DOMAIN files

====
